---- MODULE Spec2Model ----
(***************************************************************************)
(* A model of ultralytics/data/explorer/explorer.py: the Explorer object   *)
(* (table handle, similarity-index handle, choice_set), the vector store   *)
(* it connects to (tables persisted by name) and its operations.           *)
(*                                                                         *)
(* One Explorer object is live at a time; constructing another one         *)
(* (NewExplorer) connects a fresh object to the same store, which keeps    *)
(* its persisted tables.  A handle (self.table, self.sim_index) is the     *)
(* name of the table it was opened on and reads what is persisted under    *)
(* that name.  The embedding model and the store's search are external:    *)
(* Embed is a fixed deterministic function, Search an exact                *)
(* nearest-neighbour scan on squared L2 distance, ties in table order.     *)
(* Distances and max_dist are integers, a top_k fraction is num/TopKDen,   *)
(* and the mean of k embeddings is kept exactly, as their sum over k.      *)
(*                                                                         *)
(* `last` records the latest call: its arguments, what it raised or        *)
(* returned, and what it asked of the model and of the store.              *)
(*                                                                         *)
(* Four specifications share the state and the operations and differ in    *)
(* the arguments they offer:                                               *)
(*   Spec       every operation, every image readable;                     *)
(*   SpecBuild  table building, with images that cannot be read;           *)
(*   SpecIndex  the similarity index, with every max_dist and top_k;       *)
(*   SpecQuery  query and get_similar, with every image argument.          *)
(*                                                                         *)
(* docs/build_tables.py is modelled next to it: `txt` is the stripped      *)
(* lines of the configuration file and `tables` what the section loop has  *)
(* appended so far.  Its strings are sequences of characters, and          *)
(* yaml.safe_load is the reading of a block mapping by indentation.        *)
(*   SpecTables one run of the section loop over a configuration text.     *)
(***************************************************************************)
EXTENDS Integers, Sequences, FiniteSets, TLC

VARIABLES exp, store, last, txt, tables

vars == <<exp, store, last, txt, tables>>

\* the state of the documentation's table builder
docs == <<txt, tables>>

-----------------------------------------------------------------------------
(* Bounds *)

\* images in the train split of every dataset (the val split has one fewer)
NumImages == 3
\* largest max_dist offered to similarity_index (squared-distance units)
MaxDist == 2
\* top_k fractions offered are num/TopKDen for num in -1 .. TopKDen+1
TopKDen == 2
\* largest result limit offered to query / get_similar
MaxLimit == 2
\* longest image list offered to query / get_similar
MaxQueryLen == 2
\* last position in a split at which an image may be unreadable
MaxBad == 2
\* most lines in a configuration text
MaxLines == 4
\* find_sections(txt_data, max_repeats=2): the deepest heading looked for
MaxRepeats == 2

-----------------------------------------------------------------------------
(* Values *)

\* Python's None for a handle, a data reference or an argument
None == <<>>

\* a data reference is a path <<directory, stem, suffix>>
DataRefs == {<<"a", "coco", ".yaml">>, <<"b", "coco", ".yaml">>}

\* model references; the number is the weight file's id
Models == {1, 2}

\* the split names a caller may ask for; "test" is in no dataset description
SplitNames == {"train", "val", "test"}

\* Path(data).stem: the file name without directory and suffix.  A name is the
\* sequence of its parts, so that a suffix can be appended to it.
Stem(data) == <<data[2]>>

\* f'{self.table_name}_sim_idx'
SimIdxName(table_name) == table_name \o <<"_sim_idx">>

\* the names under which a table can be persisted
TableNames == {Stem(d) : d \in DataRefs} \cup {SimIdxName(Stem(d)) : d \in DataRefs}

\* the first image file of a dataset, by its directory and stem
Offset(data) == IF data[1] = "a" THEN 0 ELSE 1

\* check_det_dataset(data): the dataset description, split name -> image files
CheckDetDataset(data) ==
    [s \in {"train", "val"} |->
        IF s = "train"
        THEN [i \in 1..NumImages |-> Offset(data) + i]
        ELSE [i \in 1..(NumImages - 1) |-> Offset(data) + NumImages + i]]

\* model.embed(im_file)[0]: the embedding the model returns for one image
Embed(model, im_file) == <<(im_file + model) % 3, (im_file * model) % 2>>

\* get_table_schema(vector_size).  The width is measured on the first sample.
VectorSize(model, dataset) == Len(Embed(model, dataset[1]))

Absent == [kind |-> "absent"]

\* a sequence given as a function on 1..n, as the tuple of its elements
Tuple(seq) == seq \o <<>>

Min(a, b) == IF a < b THEN a ELSE b
Max(a, b) == IF a > b THEN a ELSE b

-----------------------------------------------------------------------------
(* Explorer.__init__ *)

\* the fields of a freshly constructed Explorer
ExplorerFields(data, model) ==
    [data |-> data,
     model |-> model,
     table_name |-> Stem(data),
     sim_idx_table_name |-> SimIdxName(Stem(data)),
     choice_set |-> None,
     sim_index |-> None,
     table |-> None]

\* what one call did, as its caller and the collaborators observe it
Call(op, args, outcome, embeds, created, searches, lookups, result) ==
    [op |-> op, args |-> args, outcome |-> outcome, embeds |-> embeds,
     created |-> created, searches |-> searches, lookups |-> lookups,
     result |-> result]

Init ==
    /\ \E d \in DataRefs, m \in Models : exp = ExplorerFields(d, m)
    /\ store = [n \in TableNames |-> Absent]
    /\ last = Call("init", None, "ok", 0, <<>>, <<>>, 0, None)
    /\ txt = <<>>
    /\ tables = <<>>

\* Explorer(data, model, uri) on the same store.  Path(None) raises TypeError,
\* so no Explorer is constructed without a data reference.
NewExplorer(data, model) ==
    IF data = None
    THEN /\ last' = Call("init", [data |-> data, model |-> model], "TypeError",
                         0, <<>>, <<>>, 0, None)
         /\ UNCHANGED <<exp, store>>
    ELSE /\ exp' = ExplorerFields(data, model)
         /\ last' = Call("init", [data |-> data, model |-> model], "ok",
                         0, <<>>, <<>>, 0, None)
         /\ UNCHANGED store

-----------------------------------------------------------------------------
(* Explorer.create_embeddings_table *)

\* line 77: a table is held and the call is not forced
ReusesHeldTable(force) == exp.table # None /\ ~force

\* a variant that never looks for a persisted table
ReopensPersistedTable_NeverReopens(force) == FALSE

\* line 80: a table is persisted under the Explorer's name and the call is not forced
ReopensPersistedTable(force) == store[exp.table_name] # Absent /\ ~force

\* a variant that passes over the first image of the dataset
YieldBatches_SkipsFirst(dataset, model) ==
    Tuple([i \in 1..(Len(dataset) - 1) |->
            [im_file |-> dataset[i + 1], vector |-> Embed(model, dataset[i + 1])]])

\* _yield_batches: one record per image, in dataset order
YieldBatches(dataset, model) ==
    Tuple([i \in 1..Len(dataset) |->
            [im_file |-> dataset[i], vector |-> Embed(model, dataset[i])]])

\* where population stops: the position of the unreadable image if the dataset
\* is that long, 0 (no failure) otherwise
FailsAt(dataset, bad) == IF bad <= Len(dataset) THEN bad ELSE 0

\* the table persisted by create_table(..., mode='overwrite') followed by add(rows)
EmbTable(width, rows, data, model, split, complete) ==
    [kind |-> "emb", width |-> width, rows |-> rows,
     data |-> data, model |-> model, split |-> split, complete |-> complete]

\* a variant that has created (emptied) the table before it looks for the split
SplitNotFound_CreatesFirst(args) ==
    /\ last' = Call("create_embeddings_table", args, "ValueError: split", 0,
                    <<exp.table_name>>, <<>>, 0, None)
    /\ store' = [store EXCEPT ![exp.table_name] =
                    EmbTable(0, <<>>, exp.data, exp.model, args.split, FALSE)]
    /\ UNCHANGED exp

\* lines 88-91: the split is not a key of the dataset description
SplitNotFound(args) ==
    /\ last' = Call("create_embeddings_table", args, "ValueError: split", 0, <<>>, <<>>, 0, None)
    /\ UNCHANGED <<exp, store>>

\* bad: the position in the split of an image that cannot be read during this
\* call (ExplorerDataset.load_image raises FileNotFoundError), 0 when all are readable
CreateEmbeddingsTable(force, split, bad) ==
    LET args == [force |-> force, split |-> split] IN
    IF ReusesHeldTable(force)
    THEN /\ last' = Call("create_embeddings_table", args, "ok", 0, <<>>, <<>>, 0, None)
         /\ UNCHANGED <<exp, store>>
    ELSE IF ReopensPersistedTable(force)
    THEN /\ exp' = [exp EXCEPT !.table = exp.table_name]
         /\ last' = Call("create_embeddings_table", args, "ok", 0, <<>>, <<>>, 0, None)
         /\ UNCHANGED store
    ELSE IF exp.data = None
    THEN /\ last' = Call("create_embeddings_table", args, "ValueError: data", 0, <<>>, <<>>, 0, None)
         /\ UNCHANGED <<exp, store>>
    ELSE LET data_info == CheckDetDataset(exp.data) IN
    IF split \notin DOMAIN data_info
    THEN SplitNotFound(args)
    ELSE LET dataset == data_info[split]
             fail == FailsAt(dataset, bad)
         IN
    IF fail = 1
    THEN \* dataset[0] cannot be read: line 99 raises before the table is created
         /\ exp' = [exp EXCEPT !.choice_set = dataset]
         /\ last' = Call("create_embeddings_table", args, "FileNotFoundError", 0, <<>>, <<>>, 0, None)
         /\ UNCHANGED store
    ELSE LET width == VectorSize(exp.model, dataset)
             rows == YieldBatches(dataset, exp.model)
         IN
    IF fail > 1
    THEN \* the table is created, then population aborts at record `fail`; the
         \* store keeps the records added before it, or none of them
         /\ exp' = [exp EXCEPT !.choice_set = dataset]
         /\ \E kept \in {0, fail - 1} :
               store' = [store EXCEPT ![exp.table_name] =
                         EmbTable(width, SubSeq(rows, 1, kept), exp.data, exp.model, split, FALSE)]
         /\ last' = Call("create_embeddings_table", args, "FileNotFoundError", fail,
                         <<exp.table_name>>, <<>>, 0, None)
    ELSE /\ exp' = [exp EXCEPT !.choice_set = dataset, !.table = exp.table_name]
         /\ store' = [store EXCEPT ![exp.table_name] =
                         EmbTable(width, rows, exp.data, exp.model, split, TRUE)]
         /\ last' = Call("create_embeddings_table", args, "ok", 1 + Len(dataset),
                         <<exp.table_name>>, <<>>, 0, None)

-----------------------------------------------------------------------------
(* The store's nearest-neighbour search: table.search(q).limit(limit) *)

\* a query vector num/den (a mean of den embeddings is their sum over den)
Vec(num, den) == [num |-> num, den |-> den]

\* squared L2 distance of a row vector to the query vector, in units of 1/den^2
RECURSIVE Dist2To(_, _, _)
Dist2To(vector, q, j) ==
    IF j = 0 THEN 0
    ELSE LET d == q.den * vector[j] - q.num[j] IN d * d + Dist2To(vector, q, j - 1)

Dist2(vector, q) == Dist2To(vector, q, Len(vector))

\* the rows by increasing distance to q: nearer first, then table order
ByDistance(rows, q) ==
    LET n == Len(rows)
        dist == Tuple([i \in 1..n |-> Dist2(rows[i].vector, q)])
        rank == Tuple([i \in 1..n |->
                    1 + Cardinality({j \in 1..n :
                            dist[j] < dist[i] \/ (dist[j] = dist[i] /\ j < i)})])
        at == Tuple([r \in 1..n |-> CHOOSE i \in 1..n : rank[i] = r])
    IN Tuple([r \in 1..n |->
            [im_file |-> rows[at[r]].im_file, vector |-> rows[at[r]].vector,
             distance |-> dist[at[r]]]])

\* the limit nearest rows, each with its _distance
Search(rows, q, limit) == SubSeq(ByDistance(rows, q), 1, Min(limit, Len(rows)))

-----------------------------------------------------------------------------
(* Explorer.query *)

\* an imgs argument: a path, a list of paths, or anything else (None, an array)
StrArg(im_file) == [tag |-> "str", v |-> im_file]
ListArg(im_files) == [tag |-> "list", v |-> im_files]
OtherArg == [tag |-> "other", v |-> None]
NoArg == [tag |-> "none", v |-> None]

\* lines 139-144: a string becomes a one-element list, a list stays
AsList(imgs) == IF imgs.tag = "str" THEN <<imgs.v>> ELSE imgs.v

\* self.model.embed(imgs): one embedding per input
EmbedAll(model, im_files) == [i \in 1..Len(im_files) |-> Embed(model, im_files[i])]

\* the elementwise sum of a non-empty list of vectors
SumVectors(embeds) ==
    LET sum[i \in 1..Len(embeds)] ==
            IF i = 1 THEN embeds[1]
            ELSE [j \in 1..Len(embeds[1]) |-> sum[i - 1][j] + embeds[i][j]]
    IN sum[Len(embeds)]

\* a variant that searches for the first embedding only
QueryVector_FirstOnly(embeds) == Vec(embeds[1], 1)

\* line 147: the mean of the embeddings if there are several, else the only one
QueryVector(embeds) ==
    IF Len(embeds) > 1 THEN Vec(SumVectors(embeds), Len(embeds)) ELSE Vec(embeds[1], 1)

\* lines 137-149 as a function of the state: <<outcome, embeds, searches, result>>
QueryOutcome(imgs, limit) ==
    IF exp.table = None
    THEN <<"ValueError: table", 0, <<>>, None>>
    ELSE IF imgs.tag \notin {"str", "list"}
    THEN <<"ValueError: imgs", 0, <<>>, None>>
    ELSE LET embeds == EmbedAll(exp.model, AsList(imgs))
             q == QueryVector(embeds)
         IN <<"ok", Len(embeds), <<[q |-> q, limit |-> limit]>>,
              Search(store[exp.table].rows, q, limit)>>

Query(imgs, limit) ==
    LET r == QueryOutcome(imgs, limit) IN
    /\ last' = Call("query", [imgs |-> imgs, limit |-> limit], r[1], r[2], <<>>, r[3], 0, r[4])
    /\ UNCHANGED <<exp, store>>

-----------------------------------------------------------------------------
(* Explorer.sql_query *)

\* to_table(filter=query): the rows the predicate selects; a predicate here is
\* "im_file = <file>"
Filter(rows, file) ==
    LET keep(row) == row.im_file = file IN SelectSeq(rows, keep)

\* a variant without the check of line 169: None has no to_lance()
SqlQuery_Unchecked(file) ==
    /\ IF exp.table = None
       THEN last' = Call("sql_query", [query |-> file], "AttributeError", 0, <<>>, <<>>, 1, None)
       ELSE last' = Call("sql_query", [query |-> file], "ok", 0, <<>>, <<>>, 1,
                         Filter(store[exp.table].rows, file))
    /\ UNCHANGED <<exp, store>>

SqlQuery(file) ==
    /\ IF exp.table = None
       THEN last' = Call("sql_query", [query |-> file], "ValueError: table", 0, <<>>, <<>>, 0, None)
       ELSE last' = Call("sql_query", [query |-> file], "ok", 0, <<>>, <<>>, 1,
                         Filter(store[exp.table].rows, file))
    /\ UNCHANGED <<exp, store>>

-----------------------------------------------------------------------------
(* Explorer.get_similar and Explorer._check_imgs_or_idxs *)

IntArg(i) == [tag |-> "int", v |-> i]

\* line 329: idx if isinstance(idx, list) else [idx]
IdxList(idx) == IF idx.tag = "list" THEN idx.v ELSE <<idx.v>>

\* a variant that, given both img and idx, uses img
CheckImgsOrIdxs_PrefersImg(img, idx) ==
    IF img = NoArg /\ idx = NoArg
    THEN <<"ValueError: either", 0, None>>
    ELSE IF img # NoArg
    THEN <<"ok", 0, ListArg(AsList(img))>>
    ELSE IF exp.table = None
    THEN <<"AttributeError", 0, None>>
    ELSE LET rows == store[exp.table].rows
             ids == IdxList(idx)
         IN IF \E k \in 1..Len(ids) : ids[k] + 1 > Len(rows)
            THEN <<"IndexError", 1, None>>
            ELSE <<"ok", 1, ListArg([k \in 1..Len(ids) |-> rows[ids[k] + 1].im_file])>>

\* lines 324-333: <<outcome, lookups, img>>; idx counts rows from 0
CheckImgsOrIdxs(img, idx) ==
    IF img = NoArg /\ idx = NoArg
    THEN <<"ValueError: either", 0, None>>
    ELSE IF img # NoArg /\ idx # NoArg
    THEN <<"ValueError: only one", 0, None>>
    ELSE IF idx # NoArg
    THEN IF exp.table = None
         THEN <<"AttributeError", 0, None>>
         ELSE LET rows == store[exp.table].rows
                  ids == IdxList(idx)
              IN IF \E k \in 1..Len(ids) : ids[k] + 1 > Len(rows)
                 THEN <<"IndexError", 1, None>>
                 ELSE <<"ok", 1, ListArg([k \in 1..Len(ids) |-> rows[ids[k] + 1].im_file])>>
    ELSE <<"ok", 0, ListArg(AsList(img))>>

GetSimilar(img, idx, limit) ==
    LET args == [img |-> img, idx |-> idx, limit |-> limit]
        c == CheckImgsOrIdxs(img, idx)
    IN
    /\ IF c[1] # "ok"
       THEN last' = Call("get_similar", args, c[1], 0, <<>>, <<>>, c[2], None)
       ELSE LET r == QueryOutcome(c[3], limit) IN
            last' = Call("get_similar", args, r[1], r[2], <<>>, r[3], c[2], r[4])
    /\ UNCHANGED <<exp, store>>

-----------------------------------------------------------------------------
(* Explorer.similarity_index *)

\* a top_k argument: None, or the fraction num/TopKDen
NoTopK == [tag |-> "none", num |-> 0]
TopKArg(num) == [tag |-> "float", num |-> num]

\* Python's truth value of top_k: None and 0.0 are false
Truthy(top_k) == top_k.tag = "float" /\ top_k.num # 0

\* a variant that returns a held index even when the call is forced
ReusesSimIndex_IgnoresForce(force) == exp.sim_index # None

\* line 252: an index is held and the call is not forced
ReusesSimIndex(force) == exp.sim_index # None /\ ~force

\* line 255: top_k and not (top_k <= 1.0 and top_k >= 0.0)
BadTopK(top_k) == Truthy(top_k) /\ ~(top_k.num <= TopKDen /\ top_k.num >= 0)

\* a variant that accepts every max_dist
BadMaxDist_Unchecked(max_dist) == FALSE

\* line 257: max_dist < 0.0
BadMaxDist(max_dist) == max_dist < 0

\* lines 260-261: the per-row neighbour limit for a table of n rows
NeighborLimit(top_k, n) ==
    Max(IF Truthy(top_k) THEN (top_k.num * n) \div TopKDen ELSE n, 1)

\* line 272: .query(f'_distance <= {max_dist}') on a search result
WithinMaxDist(found, max_dist) ==
    LET near(row) == row.distance <= max_dist IN SelectSeq(found, near)

\* _yield_sim_idx: one record per row of the embeddings table
YieldSimIdx(rows, limit, max_dist) ==
    Tuple([i \in 1..Len(rows) |->
        LET sim_idx == WithinMaxDist(Search(rows, Vec(rows[i].vector, 1), limit), max_dist)
        IN [idx |-> i - 1,
            im_file |-> rows[i].im_file,
            count |-> Len(sim_idx),
            sim_im_files |-> Tuple([k \in 1..Len(sim_idx) |-> sim_idx[k].im_file])]])

\* the searches _yield_sim_idx issues, in order
SimSearches(rows, limit) ==
    [i \in 1..Len(rows) |-> [q |-> Vec(rows[i].vector, 1), limit |-> limit]]

\* the similarity-index table persisted by create_table(..., mode='overwrite')
\* and add(records); `source` is the embeddings table it was computed from
SimTable(rows, source) == [kind |-> "sim", rows |-> rows, source |-> source]

SimilarityIndex(max_dist, top_k, force) ==
    LET args == [max_dist |-> max_dist, top_k |-> top_k, force |-> force] IN
    IF exp.table = None
    THEN /\ last' = Call("similarity_index", args, "ValueError: table", 0, <<>>, <<>>, 0, None)
         /\ UNCHANGED <<exp, store>>
    ELSE IF ReusesSimIndex(force)
    THEN /\ last' = Call("similarity_index", args, "ok", 0, <<>>, <<>>, 0,
                         store[exp.sim_index].rows)
         /\ UNCHANGED <<exp, store>>
    ELSE IF BadTopK(top_k)
    THEN /\ last' = Call("similarity_index", args, "ValueError: top_k", 0, <<>>, <<>>, 0, None)
         /\ UNCHANGED <<exp, store>>
    ELSE IF BadMaxDist(max_dist)
    THEN /\ last' = Call("similarity_index", args, "ValueError: max_dist", 0, <<>>, <<>>, 0, None)
         /\ UNCHANGED <<exp, store>>
    ELSE LET table == store[exp.table]
             limit == NeighborLimit(top_k, Len(table.rows))
             records == YieldSimIdx(table.rows, limit, max_dist)
         IN
         /\ store' = [store EXCEPT ![exp.sim_idx_table_name] = SimTable(records, table)]
         /\ exp' = [exp EXCEPT !.sim_index = exp.sim_idx_table_name]
         /\ last' = Call("similarity_index", args, "ok", 0, <<exp.sim_idx_table_name>>,
                         SimSearches(table.rows, limit), 1, records)

-----------------------------------------------------------------------------
(* docs/build_tables.py: strings are sequences of characters *)

\* str.strip(chars): drop the leading and the trailing characters that are in chars
RECURSIVE LStrip(_, _)
LStrip(s, chars) ==
    IF s # <<>> /\ Head(s) \in chars THEN LStrip(Tail(s), chars) ELSE s

RECURSIVE RStrip(_, _)
RStrip(s, chars) ==
    IF s # <<>> /\ s[Len(s)] \in chars THEN RStrip(SubSeq(s, 1, Len(s) - 1), chars) ELSE s

Strip(s, chars) == RStrip(LStrip(s, chars), chars)

\* str.startswith(prefix)
StartsWith(s, prefix) ==
    Len(s) >= Len(prefix) /\ SubSeq(s, 1, Len(prefix)) = prefix

\* str.find(sub): the 0-based place of the first occurrence of sub, -1 when there is none
Find(s, sub) ==
    LET at == {i \in 1..(Len(s) - Len(sub) + 1) : SubSeq(s, i, i + Len(sub) - 1) = sub}
    IN IF at = {} THEN -1 ELSE (CHOOSE i \in at : \A j \in at : i <= j) - 1

\* str.split(sep): the pieces between the occurrences of sep, left to right
RECURSIVE Split(_, _)
Split(s, sep) ==
    LET i == Find(s, sep)
    IN IF i = -1 THEN <<s>>
       ELSE <<SubSeq(s, 1, i)>> \o Split(SubSeq(s, i + Len(sep) + 1, Len(s)), sep)

\* str.replace(old, new): every occurrence of old, left to right
RECURSIVE Replace(_, _, _)
Replace(s, old, new) ==
    LET i == Find(s, old)
    IN IF i = -1 THEN s
       ELSE SubSeq(s, 1, i) \o new \o Replace(SubSeq(s, i + Len(old) + 1, Len(s)), old, new)

\* str.count(char)
Count(s, char) == Cardinality({i \in 1..Len(s) : s[i] = char})

\* s[l:r] with Python's reading of negative and out-of-range places
Slice(s, l, r) ==
    LET place(p) == IF p < 0 THEN Max(p + Len(s), 0) ELSE Min(p, Len(s))
    IN SubSeq(s, place(l) + 1, place(r))

\* n spaces
Spaces(n) == [i \in 1..n |-> " "] \o <<>>

\* the section names that get a table
CfgSections ==
    {<<"T", "r", "a", "i", "n", " ", "s", "e", "t", "t", "i", "n", "g", "s">>,
     <<"S", "e", "g", "m", "e", "n", "t", "a", "t", "i", "o", "n", " ", "t", "r", "a", "i", "n", " ", "s", "e", "t", "t", "i", "n", "g", "s">>,
     <<"C", "l", "a", "s", "s", "i", "f", "i", "c", "a", "t", "i", "o", "n", " ", "t", "r", "a", "i", "n", " ", "s", "e", "t", "t", "i", "n", "g", "s">>,
     <<"V", "a", "l", "/", "T", "e", "s", "t", " ", "s", "e", "t", "t", "i", "n", "g", "s">>,
     <<"P", "r", "e", "d", "i", "c", "t", " ", "s", "e", "t", "t", "i", "n", "g", "s">>,
     <<"V", "i", "s", "u", "a", "l", "i", "z", "e", " ", "s", "e", "t", "t", "i", "n", "g", "s">>,
     <<"E", "x", "p", "o", "r", "t", " ", "s", "e", "t", "t", "i", "n", "g", "s">>,
     <<"H", "y", "p", "e", "r", "p", "a", "r", "a", "m", "e", "t", "e", "r", "s">>,
     <<"A", "u", "g", "m", "e", "n", "t", "a", "t", "i", "o", "n">>,
     <<"S", "e", "g", "m", "e", "n", "t", "a", "t", "i", "o", "n", " ", "A", "u", "g", "m", "e", "n", "t", "a", "t", "i", "o", "n", "s">>,
     <<"C", "l", "a", "s", "s", "i", "f", "i", "c", "a", "t", "i", "o", "n", " ", "A", "u", "g", "m", "e", "n", "t", "a", "t", "i", "o", "n", "s">>,
     <<"C", "u", "s", "t", "o", "m", " ", "c", "o", "n", "f", "i", "g", ".", "y", "a", "m", "l">>,
     <<"T", "r", "a", "c", "k", "e", "r">>}

\* txt: the lines of the configuration file that are not empty, stripped of
\* spaces and dashes at both ends
RECURSIVE Txt(_)
Txt(lines) ==
    IF lines = <<>> THEN <<>>
    ELSE (IF Head(lines) # <<>> THEN <<Strip(Head(lines), {" ", "-"})>> ELSE <<>>)
             \o Txt(Tail(lines))

\* section_depth: the number of # in what precedes the line's first space
SectionDepth(section) == Count(Split(section, <<" ">>)[1], "#")

\* the lines that start with ss, stripped, in order
RECURSIVE SelectStartsWith(_, _)
SelectStartsWith(txt_data, ss) ==
    IF txt_data = <<>> THEN <<>>
    ELSE (IF StartsWith(Head(txt_data), ss)
          THEN <<Strip(Head(txt_data), {" ", "-"})>> ELSE <<>>)
             \o SelectStartsWith(Tail(txt_data), ss)

\* find_sections: the headings of depth 1, then those of depth 2, ... up to max_repeats
RECURSIVE FindSectionsFrom(_, _, _)
FindSectionsFrom(txt_data, i, max_repeats) ==
    IF i > max_repeats THEN <<>>
    ELSE SelectStartsWith(txt_data, [j \in 1..i |-> "#"] \o <<" ">>)
             \o FindSectionsFrom(txt_data, i + 1, max_repeats)

FindSections(txt_data) == FindSectionsFrom(txt_data, 1, MaxRepeats)

\* sections: the headings found whose title is one of cfg_sections
Sections(txt_data) ==
    SelectSeq(FindSections(txt_data), LAMBDA x : Strip(x, {"#", " "}) \in CfgSections)

\* text_2_key: the heading's title as a YAML key
Text2Key(line) == Strip(line, {"#", " ", "-"}) \o <<":", " ">>

\* extract_type: the type between the comment's parentheses, rewritten, and what follows it
ExtractType(line) ==
    LET l == Find(line, <<"(">>)
        r == Find(line, <<")">>)
        l_type == Strip(Slice(line, l, r), {")", "("})
        piped == Replace(l_type, <<"|">>, <<"o", "r">>)
        optional == Replace(piped, <<"o", "p", "t", "i", "o", "n", "a", "l">>, <<>>)
    IN <<Replace(optional, <<",", " ">>, <<>>),
         Strip(Slice(line, r + 1, Len(line)), {" "})>>

\* list.index: the place of the first member equal to x
Index(seq, x) == CHOOSE i \in 1..Len(seq) : seq[i] = x /\ \A j \in 1..(i - 1) : seq[j] # x

\* what the section loop found: the text it wrote, or the ValueError of an
\* entry line that does not unpack into entry and comment, key and value
Written(section_text) == [raised |-> FALSE, text |-> section_text]
Unpacked == [raised |-> TRUE, text |-> <<>>]

\* the four lines written for one entry: the key, then value, type and desc
EntryText(k, v, v_type, comment, is_sub, sub_d) ==
    LET indent == Spaces(sub_d * 2)
    IN IF ~is_sub
       THEN <<Spaces(2) \o k \o <<":", " ">>,
              Spaces(4) \o <<"v", "a", "l", "u", "e", ":", " ">> \o v,
              Spaces(4) \o <<"t", "y", "p", "e", ":", " ">> \o v_type,
              Spaces(4) \o <<"d", "e", "s", "c", ":", " ">> \o comment>>
       ELSE <<indent \o k \o <<":", " ">>,
              indent \o <<"v", "a", "l", "u", "e", ":", " ">> \o v,
              indent \o <<"t", "y", "p", "e", ":", " ">> \o v_type,
              indent \o <<"d", "e", "s", "c", ":", " ">> \o comment>>

\* for line in txt[idx + 1:]: section_text, one sequence member per line of text
RECURSIVE SectionText(_, _, _, _)
SectionText(lines, is_sub, sub_d, section_text) ==
    IF lines = <<>> THEN Written(section_text)
    ELSE LET line == Head(lines)
             n == SectionDepth(line)
             parts == Split(line, <<"#", " ">>)
             kv == Split(parts[1], <<":", " ">>)
             comment == Replace(Split(parts[2], <<"h", "t", "t", "p">>)[1], <<":">>, <<" ", "-">>)
             typed == ExtractType(comment)
         IN IF n = 0
            THEN IF Len(parts) # 2 \/ Len(kv) # 2 THEN Unpacked
                 ELSE SectionText(Tail(lines), is_sub, sub_d,
                          section_text \o EntryText(kv[1], kv[2], typed[1], typed[2], is_sub, sub_d))
            ELSE IF n = 1 THEN Written(section_text)
            ELSE SectionText(Tail(lines), TRUE, n,
                     section_text \o <<Spaces((n - 1) * 2) \o Text2Key(line)>>)

(* yaml.safe_load of the text of a block mapping.  Scalars are kept as their
   text, stripped; a key given twice keeps what was given last. *)
YamlNull == [kind |-> "null"]
YamlError == [kind |-> "error"]
YamlStr(s) == [kind |-> "str", str |-> s]
YamlMap(m) == [kind |-> "map", map |-> m]

\* one line "key: value" of the text: its indentation, its key and its value
YamlLine(line) ==
    LET body == Strip(line, {" "})
        colon == Find(body \o <<" ">>, <<":", " ">>)
    IN [ind |-> Len(line) - Len(LStrip(line, {" "})),
        key |-> Slice(body, 0, colon),
        val |-> Strip(Slice(body, colon + 2, Len(body)), {" "}),
        mapping |-> colon # -1]

RECURSIVE YamlMapping(_)
YamlMapping(items) ==
    LET base == items[1].ind
        tops == {p \in 1..Len(items) : items[p].ind = base}
        next(p) == IF \E q \in tops : q > p
                   THEN CHOOSE q \in tops : q > p /\ \A o \in tops : o > p => q <= o
                   ELSE Len(items) + 1
        block(p) == SubSeq(items, p + 1, next(p) - 1)
        value(p) == IF items[p].val # <<>>
                    THEN IF block(p) = <<>> THEN YamlStr(items[p].val) ELSE YamlError
                    ELSE IF block(p) = <<>> THEN YamlNull ELSE YamlMapping(block(p))
        given(k) == {p \in tops : items[p].key = k}
        final(k) == CHOOSE p \in given(k) : \A q \in given(k) : q <= p
    IN IF \E p \in 1..Len(items) : items[p].ind < base \/ ~items[p].mapping
       THEN YamlError
       ELSE LET m == [k \in {items[p].key : p \in tops} |-> value(final(k))]
            IN IF \E k \in DOMAIN m : m[k] = YamlError THEN YamlError ELSE YamlMap(m)

SafeLoad(text) == YamlMapping([i \in 1..Len(text) |-> YamlLine(text[i])] \o <<>>)

\* the run stopped by a ValueError, in place of the table it was building
ValueError == [kind |-> "ValueError"]

\* one turn of `for s in sections`: the table of the next section
BuildTable ==
    /\ Len(tables) < Len(Sections(txt))
    /\ IF tables = <<>> THEN TRUE ELSE tables[Len(tables)] # ValueError
    /\ LET s == Sections(txt)[Len(tables) + 1]
           idx == Index(txt, s)
           written == SectionText(SubSeq(txt, idx + 1, Len(txt)), FALSE, 0, <<Text2Key(s)>>)
       IN tables' = Append(tables, IF written.raised THEN ValueError
                                   ELSE SafeLoad(written.text))
    /\ UNCHANGED <<txt, exp, store, last>>

-----------------------------------------------------------------------------
(* The arguments offered to the operations *)

\* the image files offered to query
QueryFiles == {1, 2}

\* imgs arguments: a path, or a list of 1..MaxQueryLen paths
ImgArgs ==
    {StrArg(f) : f \in QueryFiles}
        \cup {ListArg(Tuple(l)) : l \in UNION {[1..k -> QueryFiles] : k \in 1..MaxQueryLen}}

\* idx arguments over the rows 0..n-1: a row, or a list of two rows
IdxArgs(n) ==
    {IntArg(i) : i \in 0..(n - 1)}
        \cup {ListArg(<<i, j>>) : i \in 0..(n - 1), j \in 0..(n - 1)}

TopKArgs == {NoTopK} \cup {TopKArg(num) : num \in (-1)..(TopKDen + 1)}

MaxDists == (-1)..MaxDist

-----------------------------------------------------------------------------
(* The Explorer's life: every operation, every image readable *)
Next ==
    \/ \E d \in DataRefs \cup {None}, m \in Models : NewExplorer(d, m) /\ UNCHANGED docs
    \/ \E force \in BOOLEAN, split \in SplitNames : CreateEmbeddingsTable(force, split, 0) /\ UNCHANGED docs
    \/ \E imgs \in {StrArg(1), ListArg(<<1, 2>>), OtherArg} : Query(imgs, MaxLimit) /\ UNCHANGED docs
    \/ \E file \in {1} : SqlQuery(file) /\ UNCHANGED docs
    \/ \E img \in {NoArg, StrArg(1)}, idx \in {NoArg, IntArg(0)} : GetSimilar(img, idx, MaxLimit) /\ UNCHANGED docs
    \/ \E max_dist \in {-1, MaxDist}, top_k \in {NoTopK, TopKArg(TopKDen + 1)}, force \in BOOLEAN :
          SimilarityIndex(max_dist, top_k, force) /\ UNCHANGED docs

Spec == Init /\ [][Next]_vars

(* Building the embeddings table, with images that cannot be read *)
NextBuild ==
    \/ \E d \in DataRefs \cup {None}, m \in Models : NewExplorer(d, m) /\ UNCHANGED docs
    \/ \E force \in BOOLEAN, split \in SplitNames, bad \in 0..MaxBad :
          CreateEmbeddingsTable(force, split, bad) /\ UNCHANGED docs
    \/ \E file \in {1} : SqlQuery(file) /\ UNCHANGED docs

SpecBuild == Init /\ [][NextBuild]_vars

(* The similarity index, with every max_dist and top_k *)
NextIndex ==
    \/ \E force \in BOOLEAN, split \in {"train", "val"} : CreateEmbeddingsTable(force, split, 0) /\ UNCHANGED docs
    \/ \E max_dist \in MaxDists, top_k \in TopKArgs, force \in BOOLEAN :
          SimilarityIndex(max_dist, top_k, force) /\ UNCHANGED docs

SpecIndex == Init /\ [][NextIndex]_vars

(* Queries, with every image argument *)
NextQuery ==
    \/ \E force \in BOOLEAN, split \in {"train", "val"} : CreateEmbeddingsTable(force, split, 0) /\ UNCHANGED docs
    \/ \E imgs \in ImgArgs \cup {OtherArg}, limit \in {1, MaxLimit} : Query(imgs, limit) /\ UNCHANGED docs
    \/ \E img \in {NoArg, StrArg(1), ListArg(<<1, 2>>)}, idx \in IdxArgs(NumImages) \cup {NoArg} :
          GetSimilar(img, idx, MaxLimit) /\ UNCHANGED docs

SpecQuery == Init /\ [][NextQuery]_vars

(* The configuration texts offered to the table builder *)

\* the lines a configuration text is made of: headings of depth 1 and 2, with
\* a title that gets a table or not, entries, an entry without a comment,
\* and an empty line
ConfigLines ==
    {<<"#", " ", "T", "r", "a", "c", "k", "e", "r", " ", "-", "-">>,
     <<"#", " ", "M", "i", "s", "c">>,
     <<"#", "#", " ", "A", "u", "g", "m", "e", "n", "t", "a", "t", "i", "o", "n">>,
     <<"#", "#", " ", "S", "u", "b">>,
     <<"a", ":", " ", "1", " ", " ", "#", " ", "(", "i", "n", "t", ")", " ", "x">>,
     <<"b", ":", " ", "2", " ", " ", "#", " ", "(", "i", "n", "t", "|", "s", "t", "r", ")", " ",
       "y", ":", " ", "z", " ", "h", "t", "t", "p">>,
     <<"c", ":", " ", "3">>,
     <<>>}

\* the texts of at most max lines
ConfigTexts(max) ==
    UNION {{Tuple(lines) : lines \in [1..n -> ConfigLines]} : n \in 0..max}

(* The table builder's run over one configuration text *)
InitTables ==
    /\ \E lines \in ConfigTexts(MaxLines) : txt = Txt(lines)
    /\ tables = <<>>
    /\ exp = None
    /\ store = None
    /\ last = None

NextTables == BuildTable

SpecTables == InitTables /\ [][NextTables]_vars

-----------------------------------------------------------------------------
(* Properties *)

\* the step is a call of op (the call's record is that of the state it leads to)
Called(op) == last'.op = op

\* the call made nothing: no embedding, no table created, no search, no lookup
NoWork(call) ==
    call.embeds = 0 /\ call.created = <<>> /\ call.searches = <<>> /\ call.lookups = 0

\* C1: once a table exists (held by the Explorer, or persisted under its table
\* name), a create_embeddings_table call with force=False computes no embedding
\* and creates no table, and the table's rows are the same after the call
C1_ReuseIsNoOp ==
    [][(/\ Called("create_embeddings_table")
        /\ ~last'.args.force
        /\ (exp.table # None \/ store[exp.table_name] # Absent))
       => (/\ last'.outcome = "ok"
           /\ last'.embeds = 0
           /\ last'.created = <<>>
           /\ store' = store
           /\ exp'.table = exp.table_name
           /\ store'[exp'.table].rows = store[exp.table_name].rows
           /\ Len(store'[exp'.table].rows) = Len(store[exp.table_name].rows))]_vars

\* a call with force=False has reused a fully populated table
C1_Witness ==
    /\ last.op = "create_embeddings_table"
    /\ ~last.args.force
    /\ last.outcome = "ok"
    /\ last.embeds = 0
    /\ exp.table # None
    /\ Len(store[exp.table].rows) = NumImages

\* C2: with no table held, query, sql_query and similarity_index each fail with
\* 'Table is not created', change nothing and call neither the model nor the store
C2_NoTableFails ==
    [][(/\ exp.table = None
        /\ last'.op \in {"query", "sql_query", "similarity_index"})
       => (/\ last'.outcome = "ValueError: table"
           /\ NoWork(last')
           /\ exp' = exp
           /\ store' = store)]_vars

\* a call has failed on an Explorer that holds no table although one is persisted
C2_Witness ==
    /\ last.op \in {"query", "sql_query", "similarity_index"}
    /\ last.outcome = "ValueError: table"
    /\ exp.table = None
    /\ store[exp.table_name] # Absent

\* the file paths of the rows idx names, in the held table
PathsOf(idx) ==
    LET ids == IF idx.tag = "int" THEN <<idx.v>> ELSE idx.v
    IN [k \in 1..Len(ids) |-> store[exp.table].rows[ids[k] + 1].im_file]

\* idx names rows of the held table only
InRange(idx) ==
    LET ids == IF idx.tag = "int" THEN <<idx.v>> ELSE idx.v
    IN \A k \in 1..Len(ids) : ids[k] < Len(store[exp.table].rows)

\* C3: get_similar with both img and idx, or with neither, fails with a
\* configuration error before any lookup, embedding or search; with idx alone,
\* on a held table, it looks the rows' file paths up and returns what query
\* returns for those paths with the same limit
C3_ExactlyOneOfImgIdx ==
    [][Called("get_similar") =>
        LET img == last'.args.img
            idx == last'.args.idx
        IN /\ (img = NoArg) = (idx = NoArg) =>
                /\ last'.outcome \in {"ValueError: either", "ValueError: only one"}
                /\ NoWork(last')
                /\ exp' = exp /\ store' = store
           /\ (img = NoArg /\ idx # NoArg /\ exp.table # None /\ InRange(idx)) =>
                LET q == QueryOutcome(ListArg(Tuple(PathsOf(idx))), last'.args.limit)
                IN /\ last'.lookups = 1
                   /\ last'.outcome = q[1]
                   /\ last'.searches = q[3]
                   /\ last'.result = q[4]]_vars

\* get_similar has answered a call that names two different rows
C3_Witness ==
    /\ last.op = "get_similar"
    /\ last.args.img = NoArg
    /\ last.args.idx = ListArg(<<0, 1>>)
    /\ last.outcome = "ok"
    /\ Len(last.result) = MaxLimit

\* top_k is a fraction outside [0, 1]
OutsideUnit(top_k) == top_k.tag = "float" /\ (top_k.num < 0 \/ top_k.num > TopKDen)

\* the call is answered from the held index: one is held and force is false
Cached(call) == exp.sim_index # None /\ ~call.args.force

\* C4 as stated: on an Explorer with a table, a similarity_index call with top_k
\* outside [0,1] or max_dist negative fails with a validation error, whatever
\* force is and whether or not an index is held, and computes and changes nothing
C4_AlwaysValidates ==
    [][(/\ Called("similarity_index")
        /\ exp.table # None
        /\ (OutsideUnit(last'.args.top_k) \/ last'.args.max_dist < 0))
       => (/\ last'.outcome \in {"ValueError: top_k", "ValueError: max_dist"}
           /\ NoWork(last')
           /\ exp' = exp
           /\ store' = store)]_vars

\* C4 (amended): the same, for the calls that are not answered from the held
\* index (force is true, or no index is held); a call with force=False on a
\* held index returns that index without validating its arguments
C4_ValidatesUnlessCached ==
    [][(/\ Called("similarity_index")
        /\ exp.table # None
        /\ (OutsideUnit(last'.args.top_k) \/ last'.args.max_dist < 0))
       => (/\ exp' = exp
           /\ store' = store
           /\ NoWork(last')
           /\ IF Cached(last')
              THEN last'.outcome = "ok" /\ last'.result = store[exp.sim_index].rows
              ELSE last'.outcome \in {"ValueError: top_k", "ValueError: max_dist"})]_vars

\* a forced call with a bad top_k has failed although an index is held
C4_Witness ==
    /\ last.op = "similarity_index"
    /\ last.args.force
    /\ OutsideUnit(last.args.top_k)
    /\ last.outcome = "ValueError: top_k"
    /\ exp.sim_index # None
    /\ store[exp.sim_index].rows # <<>>

\* the greatest integer <= num * n / TopKDen, for num >= 0
FloorOfFraction(num, n) == CHOOSE k \in 0..(num * n) : k * TopKDen <= num * n /\ (k + 1) * TopKDen > num * n

\* the vector of the row of the held table a similarity record is about
RowVector(record) == store[exp.table].rows[record.idx + 1].vector

\* C5: for a table of n rows and every supplied top_k in [0,1], 0 and 1
\* included, each per-row search is limited to max(1, floor(top_k * n))
\* neighbours, and a row's record lists only neighbours within max_dist
C5_NeighborLimit ==
    [][(/\ Called("similarity_index")
        /\ last'.outcome = "ok"
        /\ last'.created # <<>>
        /\ last'.args.top_k.tag = "float")
       => LET n == Len(store[exp.table].rows)
              k == FloorOfFraction(last'.args.top_k.num, n)
              limit == IF k > 1 THEN k ELSE 1
          IN /\ Len(last'.searches) = n
             /\ \A i \in 1..n :
                  LET found == Search(store[exp.table].rows, Vec(RowVector(last'.result[i]), 1), limit)
                      kept == {r \in 1..Len(found) : found[r].distance <= last'.args.max_dist}
                      files == last'.result[i].sim_im_files
                  IN /\ last'.searches[i].limit = limit
                     /\ last'.result[i].count = Cardinality(kept)
                     /\ Len(files) = Cardinality(kept)
                     /\ \A f \in 1..Len(files) :
                           \E r \in kept : found[r].im_file = files[f]]_vars

\* C6: a call with force=False on a held index returns that index unchanged and
\* issues no search and creates no table; every other call that passes
\* validation recomputes the index from the held embeddings table, replacing
\* the old one, with exactly one record per row of that table
C6_CachedOrRecomputed ==
    [][(Called("similarity_index") /\ exp.table # None) =>
        IF Cached(last')
        THEN /\ last'.outcome = "ok"
             /\ last'.result = store[exp.sim_index].rows
             /\ last'.searches = <<>>
             /\ last'.created = <<>>
             /\ exp' = exp
             /\ store' = store
        ELSE last'.outcome = "ok" =>
             LET rows == store[exp.table].rows
                 index == store'[exp.sim_idx_table_name]
             IN /\ last'.created = <<exp.sim_idx_table_name>>
                /\ exp'.sim_index = exp.sim_idx_table_name
                /\ index.source = store[exp.table]
                /\ last'.result = index.rows
                /\ Len(index.rows) = Len(rows)
                /\ Len(last'.searches) = Len(rows)
                /\ \A i \in 1..Len(rows) :
                      /\ index.rows[i].idx = i - 1
                      /\ index.rows[i].im_file = rows[i].im_file
                      /\ last'.searches[i].q = Vec(rows[i].vector, 1)]_vars

\* a call with force=False has returned a held, non-empty index computed from a
\* table that has since been replaced
C6_Witness ==
    /\ last.op = "similarity_index"
    /\ ~last.args.force
    /\ last.outcome = "ok"
    /\ last.created = <<>>
    /\ last.result # <<>>
    /\ last.result = store[exp.sim_index].rows
    /\ store[exp.sim_index].source # store[exp.table]

\* C7: the Explorer holds no table and no index, or a table and no index, or a
\* table and an index computed from that table; in particular the index of a
\* table that create_embeddings_table(force=True) has replaced is no longer held
C7_StateMachine ==
    /\ exp.table = None => exp.sim_index = None
    /\ exp.sim_index # None => store[exp.sim_index].source = store[exp.table]

\* C8: a table the Explorer holds was built from the Explorer's own dataset
\* with the Explorer's own model
C8_OneTablePerDataAndModel ==
    exp.table # None =>
        /\ store[exp.table].data = exp.data
        /\ store[exp.table].model = exp.model

\* the requested split is absent, or no dataset reference is configured
NoSuchSplit(split) == exp.data = None \/ split \notin DOMAIN CheckDetDataset(exp.data)

Reuses(call) == ~call.args.force /\ (exp.table # None \/ store[exp.table_name] # Absent)

RECURSIVE SumOfCoordinate(_, _, _)
SumOfCoordinate(files, j, i) ==
    IF i = 0 THEN 0 ELSE Embed(exp.model, files[i])[j] + SumOfCoordinate(files, j, i - 1)

\* the query vector q is the vector v
IsVector(q, v) == \A j \in 1..Len(v) : q.num[j] = q.den * v[j]

\* C10: query hands the store one search, with the given limit, for the
\* elementwise mean of the inputs' embeddings if there are two or more (which is
\* neither embedding when two images embed differently) and for the input's
\* own embedding if there is one
C10_QueryAverages ==
    (last.op = "query" /\ last.outcome = "ok") =>
        LET files == IF last.args.imgs.tag = "str" THEN <<last.args.imgs.v>> ELSE last.args.imgs.v
            k == Len(files)
            q == last.searches[1].q
            first == Embed(exp.model, files[1])
        IN /\ Len(last.searches) = 1
           /\ last.searches[1].limit = last.args.limit
           /\ last.embeds = k
           /\ Len(q.num) = Len(first)
           /\ \A j \in 1..Len(first) : k * q.num[j] = q.den * SumOfCoordinate(files, j, k)
           /\ k = 1 => IsVector(q, first)
           /\ (k = 2 /\ first # Embed(exp.model, files[2])) =>
                 ~IsVector(q, first) /\ ~IsVector(q, Embed(exp.model, files[2]))

\* query has searched for the mean of two different embeddings
C10_Witness ==
    /\ last.op = "query"
    /\ last.outcome = "ok"
    /\ last.args.imgs = ListArg(<<1, 2>>)
    /\ Embed(exp.model, 1) # Embed(exp.model, 2)
    /\ last.result # <<>>

\* the rows of a table other than row i whose vector is within max_dist of row i's
OthersWithin(rows, i, max_dist) ==
    {j \in 1..Len(rows) : j # i /\ Dist2(rows[j].vector, Vec(rows[i].vector, 1)) <= max_dist}

\* C11: the index holds one record per row of the embeddings table; its count
\* is the number of other images within max_dist of the row's vector and its
\* file list names exactly those images, the row's own image being neither
\* counted nor listed
C11_RecordOfOthers ==
    (last.op = "similarity_index" /\ last.outcome = "ok" /\ last.created # <<>>) =>
        LET rows == store[exp.sim_index].source.rows
            index == store[exp.sim_index].rows
        IN /\ Len(index) = Len(rows)
           /\ \A i \in 1..Len(rows) :
                LET others == OthersWithin(rows, i, last.args.max_dist)
                    files == index[i].sim_im_files
                IN /\ index[i].count = Cardinality(others)
                   /\ Len(files) = Cardinality(others)
                   /\ \A f \in 1..Len(files) : files[f] # rows[i].im_file
                   /\ \A j \in others : \E f \in 1..Len(files) : files[f] = rows[j].im_file

\* the call built a table (it did not reuse one) and returned
Built(call) == call.op = "create_embeddings_table" /\ call.outcome = "ok" /\ call.created # <<>>

\* C15: a create_embeddings_table call that builds and returns leaves the
\* Explorer holding a table with one record per image of the requested split,
\* in dataset order, each with the image's path and the model's embedding of
\* it, every vector as wide as the first sample's; a call that does not return
\* normally installs no handle
C15_BuildPopulates ==
    [][Called("create_embeddings_table") =>
        /\ Built(last') =>
              LET images == CheckDetDataset(exp.data)[last'.args.split]
                  table == store'[exp'.table]
              IN /\ exp'.table = exp.table_name
                 /\ table.width = Len(Embed(exp.model, images[1]))
                 /\ Len(table.rows) = Len(images)
                 /\ \A i \in 1..Len(images) :
                       /\ table.rows[i].im_file = images[i]
                       /\ table.rows[i].vector = Embed(exp.model, images[i])
                       /\ Len(table.rows[i].vector) = table.width
        /\ last'.outcome # "ok" => exp'.table = exp.table]_vars

\* a build over a whole train split has returned and its table is held
C15_Witness ==
    /\ Built(last)
    /\ last.args.split = "train"
    /\ exp.table = exp.table_name
    /\ Len(store[exp.table].rows) = NumImages

\* C16: get_similar with a row index and no image, on an Explorer that holds
\* no table, fails with the 'Table is not created' error that query raises
\* and looks nothing up in a table
C16_IdxWithoutTable ==
    [][(/\ Called("get_similar")
        /\ exp.table = None
        /\ last'.args.img = NoArg
        /\ last'.args.idx # NoArg)
       => (/\ last'.outcome = "ValueError: table"
           /\ last'.lookups = 0)]_vars

\* the call was made with force=True
Forced(call) == call.op \in {"create_embeddings_table", "similarity_index"} /\ call.args.force

\* the table the Explorer holds, if it holds one, was populated by a build that ran to completion
HoldsNoPartialTable(explorer, tbls) ==
    explorer.table # None => tbls[explorer.table].complete

\* C17: a table the Explorer holds was fully populated by a build that ran
\* to completion: no call without force=True, on the same or on a new
\* Explorer on the same store, makes an Explorer hold the table that an
\* aborted build left partially populated
C17_HeldTableIsComplete ==
    [][(~Forced(last') /\ HoldsNoPartialTable(exp, store))
          => HoldsNoPartialTable(exp', store')]_vars

\* the image files of a table's records, in order
FilesOf(table) == [i \in 1..Len(table.rows) |-> table.rows[i].im_file]

\* C18: whenever create_embeddings_table(split=s) returns without error, for
\* any force and any earlier calls, the table the Explorer then holds has the
\* images of split s of the configured dataset
C18_TableOfRequestedSplit ==
    [][(Called("create_embeddings_table") /\ last'.outcome = "ok") =>
          /\ exp'.table # None
          /\ last'.args.split \in DOMAIN CheckDetDataset(exp.data)
          /\ Tuple(FilesOf(store'[exp'.table])) = Tuple(CheckDetDataset(exp.data)[last'.args.split])]_vars

-----------------------------------------------------------------------------
(* Properties of the table builder *)

\* a line is a heading of depth N if it begins with N # followed by a space
Depth(line) ==
    LET hashes == Len(line) - Len(LStrip(line, {"#"}))
    IN IF hashes > 0 /\ Len(line) > hashes /\ line[hashes + 1] = " " THEN hashes ELSE 0

\* the i-th table is built, for the i-th heading selected, which is at one place of the text
TableOf(i) ==
    /\ tables[i].kind = "map"
    /\ Cardinality({q \in 1..Len(txt) : txt[q] = Sections(txt)[i]}) = 1

\* the place in the text of the heading of the i-th table
HeadingOf(i) == CHOOSE q \in 1..Len(txt) : txt[q] = Sections(txt)[i]

\* the place of the first heading of depth <= d after place p, or the end of the text
Terminator(p, d) ==
    LET later == {q \in (p + 1)..Len(txt) : Depth(txt[q]) \in 1..d}
    IN IF later = {} THEN Len(txt) + 1 ELSE CHOOSE q \in later : \A o \in later : q <= o

\* the place of the first heading after place p, or the end of the text
NextHeading(p) == Terminator(p, Len(txt[p]))

\* the entry lines strictly between two places
EntriesBetween(p, q) == {e \in (p + 1)..(q - 1) : Depth(txt[e]) = 0}

\* the title of a heading
Title(line) == Strip(line, {"#", " ", "-"})

\* key: value  # (type) description
WellFormed(line) ==
    /\ Len(Split(line, <<"#", " ">>)) = 2
    /\ Len(Split(Split(line, <<"#", " ">>)[1], <<":", " ">>)) = 2

KeyOf(line) == Split(line, <<":", " ">>)[1]

\* every key of a YAML value, at any depth
RECURSIVE KeysOf(_)
KeysOf(y) ==
    IF y.kind = "map"
    THEN DOMAIN y.map \cup UNION {KeysOf(y.map[k]) : k \in DOMAIN y.map}
    ELSE {}

\* C12: while the entries of a recognized section of depth d (1 or 2) are
\* collected, the first later heading of depth <= d ends the collection: no
\* entry line after that heading appears in the section's table
C12_SameOrShallowerHeadingEnds ==
    \A i \in 1..Len(tables) :
        TableOf(i) =>
            LET p == HeadingOf(i)
                end == Terminator(p, Depth(txt[p]))
                inside == {KeyOf(txt[e]) : e \in EntriesBetween(p, end)}
            IN \A e \in EntriesBetween(end, Len(txt) + 1) :
                   KeyOf(txt[e]) \notin inside => KeyOf(txt[e]) \notin KeysOf(tables[i])

\* a scalar as yaml.safe_load gives it
Scalar(s) == IF s = <<>> THEN YamlNull ELSE YamlStr(s)

\* the {value, type, desc} record an entry line stands for
RecordOf(line) ==
    LET parts == Split(line, <<"#", " ">>)
        comment == Replace(Split(parts[2], <<"h", "t", "t", "p">>)[1], <<":">>, <<" ", "-">>)
    IN YamlMap([f \in {<<"v", "a", "l", "u", "e">>, <<"t", "y", "p", "e">>, <<"d", "e", "s", "c">>} |->
           IF f = <<"v", "a", "l", "u", "e">>
           THEN Scalar(Strip(Split(parts[1], <<":", " ">>)[2], {" "}))
           ELSE IF f = <<"t", "y", "p", "e">>
           THEN Scalar(ExtractType(comment)[1])
           ELSE Scalar(ExtractType(comment)[2])])

\* the entry lines at these places are well formed and no two have the same key
ProperEntries(places) ==
    /\ \A e \in places : WellFormed(txt[e])
    /\ \A e, f \in places : KeyOf(txt[e]) = KeyOf(txt[f]) => e = f

\* the YAML value is the mapping of the keys of these entry lines, each to its own record
GroupOf(y, places) ==
    IF places = {} THEN y = YamlNull
    ELSE /\ y.kind = "map"
         /\ DOMAIN y.map = {KeyOf(txt[e]) : e \in places}
         /\ \A e \in places : y.map[KeyOf(txt[e])] = RecordOf(txt[e])

\* the headings of the text that are recognized
Recognized == {q \in 1..Len(txt) : Depth(txt[q]) \in 1..MaxRepeats /\ Title(txt[q]) \in CfgSections}

\* C13: a recognized section with m well-formed entry lines and no
\* sub-section heading before its terminating heading gets a table that maps
\* the section's name to exactly m keys, one per entry line, each with the
\* value, type and desc of its own line; there is one table per recognized
\* heading and none for another heading
C13_FlatSectionTable ==
    /\ \A i \in 1..Len(tables) :
          TableOf(i) =>
              LET p == HeadingOf(i)
                  end == Terminator(p, Depth(txt[p]))
                  entries == EntriesBetween(p, end)
              IN (NextHeading(p) = end /\ ProperEntries(entries)) =>
                     /\ DOMAIN tables[i].map = {Title(txt[p])}
                     /\ GroupOf(tables[i].map[Title(txt[p])], entries)
    /\ Len(tables) <= Cardinality(Recognized)
    /\ (Len(tables) = Len(Sections(txt)) /\ \A i \in 1..Len(tables) : tables[i] # ValueError)
           => Len(tables) = Cardinality(Recognized)

\* C14: a deeper heading inside a recognized section starts a nested group
\* under that section, and the m entry lines that follow it up to the next
\* heading are exactly the m keys of that group, each mapped to its own
\* {value, type, desc} record
C14_SubSectionGroup ==
    \A i \in 1..Len(tables) :
        TableOf(i) =>
            LET p == HeadingOf(i)
                end == Terminator(p, Depth(txt[p]))
                subs == {q \in (p + 1)..(end - 1) : Depth(txt[q]) > Depth(txt[p])}
            IN \A q \in subs :
                   LET entries == EntriesBetween(q, NextHeading(q))
                       section == tables[i].map[Title(txt[p])]
                   IN (/\ ProperEntries(EntriesBetween(p, end))
                       /\ \A o \in subs : Title(txt[o]) = Title(txt[q]) => o = q) =>
                          /\ section.kind = "map"
                          /\ Title(txt[q]) \in DOMAIN section.map
                          /\ GroupOf(section.map[Title(txt[q])], entries)

====
